---- MODULE Spec2Model ----
(***************************************************************************)
(* DoItNow auth API: the user table, the seven /auth handlers, the input   *)
(* validators and the hashing / token helpers, as a state machine.         *)
(*                                                                         *)
(* A JavaScript string is a sequence of runs <<ch, n>> (the character ch   *)
(* repeated n times, n > 0, adjacent runs of different characters), so     *)
(* that the length rules (6, 50, 100, 19000000) are decided on real        *)
(* lengths.  A JavaScript value is a record [t, v]: t is the typeof tag    *)
(* and v the string's runs (<<>> for the other types).                     *)
(***************************************************************************)
EXTENDS Integers, Sequences, FiniteSets, TLC

(***************************************************************************)
(* Strings                                                                 *)
(***************************************************************************)
Rep(ch, n) == IF n = 0 THEN <<>> ELSE << <<ch, n>> >>

RECURSIVE Canon(_)
Canon(s) ==
  IF Len(s) <= 1 THEN s
  ELSE LET r == Canon(Tail(s)) IN
       IF Head(s)[1] = Head(r)[1]
         THEN << <<Head(s)[1], Head(s)[2] + Head(r)[2]>> >> \o Tail(r)
         ELSE << Head(s) >> \o r

Lit(chars) == Canon([i \in 1..Len(chars) |-> <<chars[i], 1>>])

RECURSIVE Length(_)
Length(s) == IF s = <<>> THEN 0 ELSE Head(s)[2] + Length(Tail(s))

RECURSIVE Chars(_)
Chars(s) ==
  IF s = <<>> THEN <<>>
  ELSE [i \in 1..Head(s)[2] |-> Head(s)[1]] \o Chars(Tail(s))

IsSpace(ch) == ch = " "

LowerChar(ch) ==
  CASE ch = "A" -> "a"
    [] ch = "B" -> "b"
    [] OTHER -> ch

toLowerCase(s) == Canon([i \in 1..Len(s) |-> <<LowerChar(s[i][1]), s[i][2]>>])

RECURSIVE TrimStart(_)
TrimStart(s) ==
  IF s # <<>> /\ IsSpace(Head(s)[1]) THEN TrimStart(Tail(s)) ELSE s

RECURSIVE TrimEnd(_)
TrimEnd(s) ==
  IF s # <<>> /\ IsSpace(s[Len(s)][1]) THEN TrimEnd(SubSeq(s, 1, Len(s) - 1)) ELSE s

trim(s) == TrimEnd(TrimStart(s))

(***************************************************************************)
(* JavaScript values                                                       *)
(***************************************************************************)
Undefined == [t |-> "undefined", v |-> <<>>]
Null == [t |-> "null", v |-> <<>>]
Str(s) == [t |-> "string", v |-> s]

\* !x for the values the bodies carry: undefined, null and "" are falsy
Falsy(x) == x.t \in {"undefined", "null"} \/ (x.t = "string" /\ x.v = <<>>)

(***************************************************************************)
(* utils/auth.js                                                           *)
(***************************************************************************)
\* /^[^\s@]+@[^\s@]+\.[^\s@]+$/ on the characters of a string
isValidEmail(s) ==
  LET c == Chars(s)
      ats == {i \in 1..Len(c) : c[i] = "@"}
  IN /\ \A i \in 1..Len(c) : ~IsSpace(c[i])
     /\ Cardinality(ats) = 1
     /\ \E a \in ats :
          /\ a > 1
          /\ \E d \in (a + 2)..(Len(c) - 1) : c[d] = "."

PasswordMinLen == 6
PasswordMaxLen == 100

validatePassword(password) ==
  IF Falsy(password) THEN <<"Password is required">>
  ELSE (IF Length(password.v) < PasswordMinLen
          THEN <<"Password must be at least 6 characters long">> ELSE <<>>)
       \o
       (IF Length(password.v) > PasswordMaxLen
          THEN <<"Password must be less than 100 characters">> ELSE <<>>)

saltRounds == 12

\* bcrypt.hash: a salted one-way digest; the salt is fresh for every call
hashPassword(password, salt) ==
  [rounds |-> saltRounds, salt |-> salt, digest |-> password]

\* bcrypt.compare: re-hash the plain text under the stored salt and rounds
comparePassword(plainPassword, hashedPassword) ==
  [rounds |-> hashedPassword.rounds, salt |-> hashedPassword.salt,
   digest |-> plainPassword] = hashedPassword

\* '7d' in days, the unit of the clock
TokenTTL == 7

\* jwt.sign(payload, JWT_SECRET, { expiresIn })
generateToken(payload, iat) ==
  [userId |-> payload.userId, email |-> payload.email,
   iat |-> iat, exp |-> iat + TokenTTL, sig |-> "JWT_SECRET"]

\* jwt.verify(token, JWT_SECRET): the signature first, then the expiry
verifyToken(token, clock) ==
  IF token.sig # "JWT_SECRET" THEN "JsonWebTokenError"
  ELSE IF clock >= token.exp THEN "TokenExpiredError"
  ELSE "ok"

\* the row returned as it is stored
sanitizeUserMutKeepsAll(user) == user

sanitizeUser(user) == [f \in (DOMAIN user) \ {"password"} |-> user[f]]

(***************************************************************************)
(* middleware/validation.js: each validator gives the list of errors and   *)
(* the body as the handler will see it                                     *)
(***************************************************************************)
EmailErrors(email) ==
  IF Falsy(email) THEN <<"Email is required">>
  ELSE IF ~isValidEmail(email.v) THEN <<"Please provide a valid email address">>
  ELSE <<>>

NameMaxLen == 50

\* the sanitize step without toLowerCase
validateRegistrationMutNoLower(body) ==
  LET email == body.email
      name == body.name
      errors ==
        EmailErrors(email)
        \o validatePassword(body.password)
        \o (IF ~Falsy(name) /\ (name.t # "string" \/ Length(trim(name.v)) = 0)
              THEN <<"Name must be a non-empty string">> ELSE <<>>)
        \o (IF ~Falsy(name) /\ Length(name.v) > NameMaxLen
              THEN <<"Name must be less than 50 characters">> ELSE <<>>)
  IN [errors |-> errors,
      body |-> IF errors # <<>> THEN body
               ELSE [email |-> Str(trim(email.v)),
                     password |-> body.password,
                     name |-> IF ~Falsy(name) THEN Str(trim(name.v)) ELSE name]]

validateRegistration(body) ==
  LET email == body.email
      name == body.name
      errors ==
        EmailErrors(email)
        \o validatePassword(body.password)
        \o (IF ~Falsy(name) /\ (name.t # "string" \/ Length(trim(name.v)) = 0)
              THEN <<"Name must be a non-empty string">> ELSE <<>>)
        \o (IF ~Falsy(name) /\ Length(name.v) > NameMaxLen
              THEN <<"Name must be less than 50 characters">> ELSE <<>>)
  IN [errors |-> errors,
      body |-> IF errors # <<>> THEN body
               ELSE [email |-> Str(trim(toLowerCase(email.v))),
                     password |-> body.password,
                     name |-> IF ~Falsy(name) THEN Str(trim(name.v)) ELSE name]]

validateLogin(body) ==
  LET email == body.email
      errors ==
        EmailErrors(email)
        \o (IF Falsy(body.password) THEN <<"Password is required">> ELSE <<>>)
  IN [errors |-> errors,
      body |-> IF errors # <<>> THEN body
               ELSE [email |-> Str(trim(toLowerCase(email.v))),
                     password |-> body.password]]

AvatarMaxLen == 19000000

validateProfileUpdate(body) ==
  LET name == body.name
      avatar == body.avatar
      errors ==
        (IF name.t = "undefined" THEN <<>>
         ELSE IF name.t # "string" THEN <<"Name must be a string">>
         ELSE IF Length(trim(name.v)) = 0 THEN <<"Name cannot be empty">>
         ELSE IF Length(name.v) > NameMaxLen
           THEN <<"Name must be less than 50 characters">>
         ELSE <<>>)
        \o
        (IF avatar.t = "undefined" THEN <<>>
         ELSE IF avatar.t # "string"
           THEN <<"Avatar must be a string (URL or base64)">>
         ELSE IF Length(avatar.v) > AvatarMaxLen
           THEN <<"Avatar data is too large (max 19MB)">>
         ELSE <<>>)
  IN [errors |-> errors,
      body |-> IF errors # <<>> THEN body
               ELSE [name |-> IF name.t # "undefined" THEN Str(trim(name.v)) ELSE name,
                     avatar |-> IF avatar.t # "undefined"
                                  THEN Str(trim(avatar.v)) ELSE avatar]]

\* error.replace('Password', 'New password') on validatePassword's messages
NewPasswordMessage(error) ==
  CASE error = "Password is required" -> "New password is required"
    [] error = "Password must be at least 6 characters long"
         -> "New password must be at least 6 characters long"
    [] error = "Password must be less than 100 characters"
         -> "New password must be less than 100 characters"
    [] OTHER -> error

\* without the currentPassword === newPassword rule
validateChangePasswordMutNoDiffer(body) ==
  LET pv == validatePassword(body.newPassword)
      errors ==
        (IF Falsy(body.currentPassword)
           THEN <<"Current password is required">> ELSE <<>>)
        \o [i \in 1..Len(pv) |-> NewPasswordMessage(pv[i])]
  IN [errors |-> errors, body |-> body]

validateChangePassword(body) ==
  LET pv == validatePassword(body.newPassword)
      errors ==
        (IF Falsy(body.currentPassword)
           THEN <<"Current password is required">> ELSE <<>>)
        \o [i \in 1..Len(pv) |-> NewPasswordMessage(pv[i])]
        \o (IF body.currentPassword = body.newPassword
              THEN <<"New password must be different from current password">>
              ELSE <<>>)
  IN [errors |-> errors, body |-> body]

\* res.status(..).json(..): every field is present, "" / <<>> when the body omits it
Response(status, error, message) ==
  [status |-> status, success |-> FALSE, error |-> error, message |-> message,
   details |-> <<>>, user |-> <<>>, token |-> <<>>]

Success(status, message, user, token) ==
  [status |-> status, success |-> TRUE, error |-> "", message |-> message,
   details |-> <<>>, user |-> user, token |-> token]

ValidationFailed(errors) ==
  [Response(400, "Validation failed", "") EXCEPT !.details = errors]

(***************************************************************************)
(* The users table (prisma/schema.prisma, model User)                      *)
(***************************************************************************)
findUniqueByEmail(us, email) == {u \in us : u.email = email}

findUniqueById(us, id) == {u \in us : u.id = id}

\* prisma.user.create: the @unique index on email rejects a second row (P2002);
\* id, avatar, isActive, createdAt and updatedAt take their schema defaults
\* the table without the unique index on email
PrismaCreateMutNoIndex(us, data, id, clock) ==
  LET user == [id |-> id, email |-> data.email, password |-> data.password,
               name |-> data.name, avatar |-> Null, isActive |-> TRUE,
               createdAt |-> clock, updatedAt |-> clock]
  IN [code |-> "ok", users |-> us \cup {user}, user |-> <<user>>]

PrismaCreate(us, data, id, clock) ==
  LET user == [id |-> id, email |-> data.email, password |-> data.password,
               name |-> data.name, avatar |-> Null, isActive |-> TRUE,
               createdAt |-> clock, updatedAt |-> clock]
  IN IF findUniqueByEmail(us, data.email) # {}
       THEN [code |-> "P2002", users |-> us, user |-> <<>>]
       ELSE [code |-> "ok", users |-> us \cup {user}, user |-> <<user>>]

\* prisma.user.update({ where: { id }, data }): P2025 when no row has the id;
\* data is a set of <<field, value>> pairs; @updatedAt is set on every update
\* an update that stamps both timestamps
PrismaUpdateMutStampsCreatedAt(us, id, data, clock) ==
  IF findUniqueById(us, id) = {}
    THEN [code |-> "P2025", users |-> us, user |-> <<>>]
    ELSE LET old == CHOOSE u \in us : u.id = id
             new == [f \in DOMAIN old |->
                       IF f \in {"createdAt", "updatedAt"} THEN clock
                       ELSE IF \E d \in data : d[1] = f
                         THEN (CHOOSE d \in data : d[1] = f)[2]
                       ELSE old[f]]
         IN [code |-> "ok", users |-> (us \ {old}) \cup {new}, user |-> <<new>>]

PrismaUpdate(us, id, data, clock) ==
  IF findUniqueById(us, id) = {}
    THEN [code |-> "P2025", users |-> us, user |-> <<>>]
    ELSE LET old == CHOOSE u \in us : u.id = id
             new == [f \in DOMAIN old |->
                       IF f = "updatedAt" THEN clock
                       ELSE IF \E d \in data : d[1] = f
                         THEN (CHOOSE d \in data : d[1] = f)[2]
                       ELSE old[f]]
         IN [code |-> "ok", users |-> (us \ {old}) \cup {new}, user |-> <<new>>]

(***************************************************************************)
(* middleware/auth.js, authenticateToken: the bearer token is verified and *)
(* its payload becomes req.user                                            *)
(***************************************************************************)
authenticateToken(token, clock) ==
  IF verifyToken(token, clock) = "TokenExpiredError"
    THEN [ok |-> FALSE, res |-> Response(403, "Token expired", "Token has expired")]
  ELSE IF verifyToken(token, clock) # "ok"
    THEN [ok |-> FALSE, res |-> Response(401, "Invalid token", "Token is not valid")]
  ELSE [ok |-> TRUE, res |-> Response(200, "", "")]

(***************************************************************************)
(* routes/auth.js: each handler as a function of the table and the request *)
(***************************************************************************)
\* POST /register up to the await of prisma.user.create
RegisterLookup(us, body) ==
  LET v == validateRegistration(body) IN
  IF v.errors # <<>>
    THEN [go |-> FALSE, res |-> ValidationFailed(v.errors), body |-> v.body]
  ELSE IF findUniqueByEmail(us, v.body.email.v) # {}
    THEN [go |-> FALSE, body |-> v.body,
          res |-> Response(409, "User already exists",
                           "A user with this email address already exists")]
  ELSE [go |-> TRUE, res |-> Response(0, "", ""), body |-> v.body]

\* POST /register from hashPassword on; a rejected create lands in the catch
RegisterCreate(us, body, id, salt, clock) ==
  LET hashedPassword == hashPassword(body.password.v, salt)
      c == PrismaCreate(us, [email |-> body.email.v, password |-> hashedPassword,
                             name |-> IF Falsy(body.name) THEN Null ELSE body.name],
                        id, clock)
  IN IF c.code # "ok"
       THEN [users |-> us,
             res |-> Response(500, "Internal server error",
                              "An error occurred while creating your account")]
       ELSE [users |-> c.users,
             res |-> Success(201, "User registered successfully",
                       <<sanitizeUser(c.user[1])>>,
                       <<generateToken([userId |-> c.user[1].id,
                                        email |-> c.user[1].email], clock)>>)]

InvalidCredentials ==
  Response(401, "Invalid credentials", "Email or password is incorrect")

AccountDeactivated ==
  Response(401, "Account deactivated",
           "Your account has been deactivated. Please contact support.")

\* a wrong password answered with a message of its own
LoginHandlerMutOwnMessage(us, body, clock) ==
  LET v == validateLogin(body)
      found == findUniqueByEmail(us, v.body.email.v)
      user == CHOOSE u \in found : TRUE
  IN IF v.errors # <<>> THEN ValidationFailed(v.errors)
     ELSE IF found = {} THEN InvalidCredentials
     ELSE IF ~user.isActive THEN AccountDeactivated
     ELSE IF ~comparePassword(v.body.password.v, user.password)
       THEN Response(401, "Invalid credentials", "Password is incorrect")
     ELSE Success(200, "Login successful", <<sanitizeUser(user)>>,
            <<generateToken([userId |-> user.id, email |-> user.email], clock)>>)

\* without the isActive check
LoginHandlerMutNoActiveCheck(us, body, clock) ==
  LET v == validateLogin(body)
      found == findUniqueByEmail(us, v.body.email.v)
      user == CHOOSE u \in found : TRUE
  IN IF v.errors # <<>> THEN ValidationFailed(v.errors)
     ELSE IF found = {} THEN InvalidCredentials
     ELSE IF ~comparePassword(v.body.password.v, user.password)
       THEN InvalidCredentials
     ELSE Success(200, "Login successful", <<sanitizeUser(user)>>,
            <<generateToken([userId |-> user.id, email |-> user.email], clock)>>)

\* POST /login
LoginHandler(us, body, clock) ==
  LET v == validateLogin(body)
      found == findUniqueByEmail(us, v.body.email.v)
      user == CHOOSE u \in found : TRUE
  IN IF v.errors # <<>> THEN ValidationFailed(v.errors)
     ELSE IF found = {} THEN InvalidCredentials
     ELSE IF ~user.isActive THEN AccountDeactivated
     ELSE IF ~comparePassword(v.body.password.v, user.password)
       THEN InvalidCredentials
     ELSE Success(200, "Login successful", <<sanitizeUser(user)>>,
            <<generateToken([userId |-> user.id, email |-> user.email], clock)>>)

UserNotFound == Response(404, "User not found", "Your account could not be found")

\* GET /me
MeHandler(us, token, clock) ==
  LET a == authenticateToken(token, clock)
      found == findUniqueById(us, token.userId)
  IN IF ~a.ok THEN a.res
     ELSE IF found = {} THEN UserNotFound
     ELSE Success(200, "", <<sanitizeUser(CHOOSE u \in found : TRUE)>>, <<>>)

\* a column the request does not supply written as null
ProfileHandlerMutFullUpdate(us, token, body, clock) ==
  LET a == authenticateToken(token, clock)
      v == validateProfileUpdate(body)
      data == {<<"name", IF v.body.name.t # "undefined" THEN v.body.name ELSE Null>>,
               <<"avatar", IF v.body.avatar.t # "undefined"
                             THEN v.body.avatar ELSE Null>>}
      c == PrismaUpdate(us, token.userId, data, clock)
  IN IF ~a.ok THEN [users |-> us, res |-> a.res]
     ELSE IF v.errors # <<>> THEN [users |-> us, res |-> ValidationFailed(v.errors)]
     ELSE IF c.code # "ok"
       THEN [users |-> us,
             res |-> Response(500, "Internal server error",
                              "An error occurred while updating your profile")]
     ELSE [users |-> c.users,
           res |-> Success(200, "Profile updated successfully",
                           <<sanitizeUser(c.user[1])>>, <<>>)]

\* PUT /profile
ProfileHandler(us, token, body, clock) ==
  LET a == authenticateToken(token, clock)
      v == validateProfileUpdate(body)
      data == (IF v.body.name.t # "undefined" THEN {<<"name", v.body.name>>} ELSE {})
              \cup
              (IF v.body.avatar.t # "undefined"
                 THEN {<<"avatar", v.body.avatar>>} ELSE {})
      c == PrismaUpdate(us, token.userId, data, clock)
  IN IF ~a.ok THEN [users |-> us, res |-> a.res]
     ELSE IF v.errors # <<>> THEN [users |-> us, res |-> ValidationFailed(v.errors)]
     ELSE IF c.code # "ok"
       THEN [users |-> us,
             res |-> Response(500, "Internal server error",
                              "An error occurred while updating your profile")]
     ELSE [users |-> c.users,
           res |-> Success(200, "Profile updated successfully",
                           <<sanitizeUser(c.user[1])>>, <<>>)]

InvalidCurrentPassword ==
  Response(400, "Invalid current password",
           "The current password you entered is incorrect")

\* a wrong current password answered 401
ChangePasswordLookupMut401(us, token, body, clock) ==
  LET a == authenticateToken(token, clock)
      v == validateChangePassword(body)
      found == findUniqueById(us, token.userId)
      user == CHOOSE u \in found : TRUE
  IN IF ~a.ok THEN [go |-> FALSE, res |-> a.res, user |-> <<>>]
     ELSE IF v.errors # <<>>
       THEN [go |-> FALSE, res |-> ValidationFailed(v.errors), user |-> <<>>]
     ELSE IF found = {} THEN [go |-> FALSE, res |-> UserNotFound, user |-> <<>>]
     ELSE IF ~comparePassword(body.currentPassword.v, user.password)
       THEN [go |-> FALSE, user |-> <<>>,
             res |-> Response(401, "Invalid current password",
                              "The current password you entered is incorrect")]
     ELSE [go |-> TRUE, res |-> Response(0, "", ""), user |-> <<user>>]

\* PUT /change-password up to the await of hashPassword: the row is read and
\* currentPassword compared with the hash that was read
ChangePasswordLookup(us, token, body, clock) ==
  LET a == authenticateToken(token, clock)
      v == validateChangePassword(body)
      found == findUniqueById(us, token.userId)
      user == CHOOSE u \in found : TRUE
  IN IF ~a.ok THEN [go |-> FALSE, res |-> a.res, user |-> <<>>]
     ELSE IF v.errors # <<>>
       THEN [go |-> FALSE, res |-> ValidationFailed(v.errors), user |-> <<>>]
     ELSE IF found = {} THEN [go |-> FALSE, res |-> UserNotFound, user |-> <<>>]
     ELSE IF ~comparePassword(body.currentPassword.v, user.password)
       THEN [go |-> FALSE, res |-> InvalidCurrentPassword, user |-> <<>>]
     ELSE [go |-> TRUE, res |-> Response(0, "", ""), user |-> <<user>>]

\* the new hash computed and never stored
ChangePasswordUpdateMutNoWrite(us, userId, newPassword, salt, clock) ==
  [users |-> us, res |-> Success(200, "Password changed successfully", <<>>, <<>>)]

\* PUT /change-password from hashPassword on
ChangePasswordUpdate(us, userId, newPassword, salt, clock) ==
  LET hashedNewPassword == hashPassword(newPassword.v, salt)
      c == PrismaUpdate(us, userId, {<<"password", hashedNewPassword>>}, clock)
  IN IF c.code # "ok"
       THEN [users |-> us,
             res |-> Response(500, "Internal server error",
                              "An error occurred while changing your password")]
       ELSE [users |-> c.users,
             res |-> Success(200, "Password changed successfully", <<>>, <<>>)]

\* POST /refresh
RefreshHandler(token, clock) ==
  LET a == authenticateToken(token, clock) IN
  IF ~a.ok THEN a.res
  ELSE Success(200, "Token refreshed successfully", <<>>,
         <<generateToken([userId |-> token.userId, email |-> token.email], clock)>>)

\* POST /logout
LogoutHandler(token, clock) ==
  LET a == authenticateToken(token, clock) IN
  IF ~a.ok THEN a.res
  ELSE Success(200, "Logged out successfully", <<>>, <<>>)

(***************************************************************************)
(* Requests the clients send.  Emails: a registered form, the same in      *)
(* upper case, the same with a leading blank, and a second address.        *)
(* Passwords: two valid ones and one a character too short.                *)
(***************************************************************************)
MaxRequests == 3
MaxTime == 7

EmailA == Lit(<<"a", "@", "b", ".", "c">>)
EmailAUpper == Lit(<<"A", "@", "b", ".", "c">>)
EmailAPadded == Lit(<<" ", "a", "@", "b", ".", "c">>)
EmailB == Lit(<<"b", "@", "b", ".", "c">>)

EmailInputs == {Str(EmailA), Str(EmailAUpper), Str(EmailAPadded), Str(EmailB)}

PasswordP == Rep("p", PasswordMinLen)
PasswordQ == Rep("q", PasswordMinLen)
PasswordShort == Rep("p", PasswordMinLen - 1)

PasswordInputs == {Str(PasswordP), Str(PasswordQ), Str(PasswordShort)}

NameInputs == {Undefined, Str(Lit(<<"m", " ">>))}

AvatarInputs == {Undefined, Str(Rep("u", 1))}

\* the a@b.c variants register without a name, b@b.c with one
RegisterBodies ==
  [email : EmailInputs \ {Str(EmailB)},
   password : {Str(PasswordP), Str(PasswordShort)}, name : {Undefined}]
  \cup
  [email : {Str(EmailB)}, password : {Str(PasswordP)},
   name : {Str(Lit(<<"n", " ">>))}]

LoginBodies == [email : EmailInputs, password : {Str(PasswordP), Str(PasswordQ)}]

ProfileBodies == [name : NameInputs, avatar : AvatarInputs]

ChangePasswordBodies ==
  [currentPassword : PasswordInputs, newPassword : PasswordInputs]

ForgedToken ==
  [userId |-> 1, email |-> EmailA, iat |-> 0, exp |-> TokenTTL, sig |-> "forged"]

(***************************************************************************)
(* State                                                                   *)
(***************************************************************************)
VARIABLES
  users,      \* the rows of the users table
  nextId,     \* the autoincrement sequence of users.id
  salts,      \* the number of salts bcrypt has drawn
  now,        \* the clock, in days
  tokens,     \* the tokens the service has issued
  regPending, \* register requests suspended at the await before create
  cpPending,  \* change-password requests suspended at the await before update
  resp,       \* the last response sent, with the request it answers
  creds,      \* history: per user id, the password registered and the last change
  nReq        \* the number of requests received

vars ==
  <<users, nextId, salts, now, tokens, regPending, cpPending, resp, creds, nReq>>

NoBody == [none |-> TRUE]

Init ==
  /\ users = {}
  /\ nextId = 1
  /\ salts = 0
  /\ now = 0
  /\ tokens = {}
  /\ regPending = <<>>
  /\ cpPending = <<>>
  /\ resp = [op |-> "none", userId |-> 0, body |-> NoBody, res |-> Response(0, "", "")]
  /\ creds = <<>>
  /\ nReq = 0

Remove(seq, i) == SubSeq(seq, 1, i - 1) \o SubSeq(seq, i + 1, Len(seq))

TokenInputs == tokens \cup {ForgedToken}

Issued(res) == {res.token[i] : i \in 1..Len(res.token)}

\* the response sent, with req.body and the user id authenticateToken put in req.user
Reply(op, userId, body, res) ==
  resp' = [op |-> op, userId |-> userId, body |-> body, res |-> res]

ReqUser(token) == IF authenticateToken(token, now).ok THEN token.userId ELSE 0

(***************************************************************************)
(* Actions.  A handler runs to its first await whose continuation writes   *)
(* the table: register and change-password are two steps each, with other  *)
(* requests free to run in between; the other handlers are one step.       *)
(***************************************************************************)
Register(body) ==
  LET r == RegisterLookup(users, body) IN
  /\ nReq < MaxRequests
  /\ nReq' = nReq + 1
  /\ IF r.go
       THEN /\ regPending' = Append(regPending, r.body)
            /\ UNCHANGED resp
       ELSE /\ Reply("register", 0, body, r.res)
            /\ UNCHANGED regPending
  /\ UNCHANGED <<users, nextId, salts, now, tokens, cpPending, creds>>

RegisterFinish(i) ==
  LET body == regPending[i]
      c == RegisterCreate(users, body, nextId, salts + 1, now)
  IN /\ regPending' = Remove(regPending, i)
     /\ salts' = salts + 1
     /\ users' = c.users
     /\ tokens' = tokens \cup Issued(c.res)
     /\ Reply("register", 0, body, c.res)
     /\ IF c.res.status = 201
          THEN /\ nextId' = nextId + 1
               /\ creds' = Append(creds, [registered |-> body.password.v,
                                          change |-> <<>>])
          ELSE UNCHANGED <<nextId, creds>>
     /\ UNCHANGED <<now, cpPending, nReq>>

Login(body) ==
  LET res == LoginHandler(users, body, now) IN
  /\ nReq < MaxRequests
  /\ nReq' = nReq + 1
  /\ tokens' = tokens \cup Issued(res)
  /\ Reply("login", 0, body, res)
  /\ UNCHANGED <<users, nextId, salts, now, regPending, cpPending, creds>>

Me(token) ==
  /\ nReq < MaxRequests
  /\ nReq' = nReq + 1
  /\ Reply("me", ReqUser(token), NoBody, MeHandler(users, token, now))
  /\ UNCHANGED <<users, nextId, salts, now, tokens, regPending, cpPending, creds>>

UpdateProfile(token, body) ==
  LET r == ProfileHandler(users, token, body, now) IN
  /\ nReq < MaxRequests
  /\ nReq' = nReq + 1
  /\ users' = r.users
  /\ Reply("profile", ReqUser(token), body, r.res)
  /\ UNCHANGED <<nextId, salts, now, tokens, regPending, cpPending, creds>>

ChangePassword(token, body) ==
  LET r == ChangePasswordLookup(users, token, body, now) IN
  /\ nReq < MaxRequests
  /\ nReq' = nReq + 1
  /\ IF r.go
       THEN /\ cpPending' = Append(cpPending,
                              [token |-> token, body |-> body, user |-> r.user[1]])
            /\ UNCHANGED resp
       ELSE /\ Reply("change-password", ReqUser(token), body, r.res)
            /\ UNCHANGED cpPending
  /\ UNCHANGED <<users, nextId, salts, now, tokens, regPending, creds>>

ChangePasswordFinish(i) ==
  LET p == cpPending[i]
      c == ChangePasswordUpdate(users, p.token.userId, p.body.newPassword,
                                salts + 1, now)
  IN /\ cpPending' = Remove(cpPending, i)
     /\ salts' = salts + 1
     /\ users' = c.users
     /\ Reply("change-password", p.token.userId, p.body, c.res)
     /\ creds' = IF c.res.status = 200
                   THEN [creds EXCEPT ![p.token.userId].change =
                           <<[old |-> p.body.currentPassword.v,
                              new |-> p.body.newPassword.v]>>]
                   ELSE creds
     /\ UNCHANGED <<nextId, now, tokens, regPending, nReq>>

\* a refresh that looks the user up and refuses a deactivated account
RefreshMutChecksActive(token) ==
  LET found == findUniqueById(users, token.userId)
      res == IF authenticateToken(token, now).ok
                /\ \E u \in found : ~u.isActive
               THEN AccountDeactivated
               ELSE RefreshHandler(token, now)
  IN /\ nReq < MaxRequests
     /\ nReq' = nReq + 1
     /\ tokens' = tokens \cup Issued(res)
     /\ Reply("refresh", ReqUser(token), NoBody, res)
     /\ UNCHANGED <<users, nextId, salts, now, regPending, cpPending, creds>>

Refresh(token) ==
  LET res == RefreshHandler(token, now) IN
  /\ nReq < MaxRequests
  /\ nReq' = nReq + 1
  /\ tokens' = tokens \cup Issued(res)
  /\ Reply("refresh", ReqUser(token), NoBody, res)
  /\ UNCHANGED <<users, nextId, salts, now, regPending, cpPending, creds>>

\* a logout that closes the account
LogoutMutDeactivates(token) ==
  /\ nReq < MaxRequests
  /\ nReq' = nReq + 1
  /\ Reply("logout", ReqUser(token), NoBody, LogoutHandler(token, now))
  /\ users' = IF authenticateToken(token, now).ok
                THEN {[u EXCEPT !.isActive = (u.id # token.userId /\ @)] : u \in users}
                ELSE users
  /\ UNCHANGED <<nextId, salts, now, tokens, regPending, cpPending, creds>>

Logout(token) ==
  /\ nReq < MaxRequests
  /\ nReq' = nReq + 1
  /\ Reply("logout", ReqUser(token), NoBody, LogoutHandler(token, now))
  /\ UNCHANGED <<users, nextId, salts, now, tokens, regPending, cpPending, creds>>

\* no handler writes the isActive column: the operator of the database clears it
Deactivate(id) ==
  /\ \E u \in users :
       /\ u.id = id
       /\ u.isActive
       /\ users' = (users \ {u}) \cup {[u EXCEPT !.isActive = FALSE]}
  /\ UNCHANGED <<nextId, salts, now, tokens, regPending, cpPending, resp, creds, nReq>>

\* time passes: one token lifetime at a step
Tick(d) ==
  /\ now + d <= MaxTime
  /\ now' = now + d
  /\ UNCHANGED <<users, nextId, salts, tokens, regPending, cpPending, resp, creds, nReq>>

Next ==
  \/ \E body \in RegisterBodies : Register(body)
  \/ \E i \in 1..Len(regPending) : RegisterFinish(i)
  \/ \E body \in LoginBodies : Login(body)
  \/ \E token \in TokenInputs : Me(token)
  \/ \E token \in TokenInputs, body \in ProfileBodies : UpdateProfile(token, body)
  \/ \E token \in TokenInputs, body \in ChangePasswordBodies :
       ChangePassword(token, body)
  \/ \E i \in 1..Len(cpPending) : ChangePasswordFinish(i)
  \/ \E token \in TokenInputs : Refresh(token)
  \/ \E token \in TokenInputs : Logout(token)
  \/ \E u \in users : Deactivate(u.id)
  \/ \E d \in {TokenTTL} : Tick(d)

Spec == Init /\ [][Next]_vars

(***************************************************************************)
(* The validators on their own: a request of one of the four validated     *)
(* operations arrives, with each field absent, empty, blank, at a length   *)
(* limit or one past it, and the middleware answers 400 or hands the       *)
(* sanitized body to the handler.                                          *)
(***************************************************************************)
EmailRequests ==
  {Undefined, Str(<<>>), Str(Lit(<<"a", "b">>)), Str(EmailA), Str(EmailAPadded)}

PasswordRequests ==
  {Undefined, Str(<<>>), Str(PasswordShort), Str(PasswordP),
   Str(Rep("p", PasswordMaxLen)), Str(Rep("p", PasswordMaxLen + 1))}

NameRequests ==
  {Undefined, Str(<<>>), Str(Rep(" ", 1)), Str(Rep(" ", NameMaxLen + 1)),
   Str(Rep("n", NameMaxLen)), Str(Rep("n", NameMaxLen + 1))}

AvatarRequests ==
  {Undefined, Str(Rep("u", AvatarMaxLen)), Str(Rep("u", AvatarMaxLen + 1))}

ValidatorRequests ==
  [op : {"register"},
   body : [email : EmailRequests, password : PasswordRequests, name : NameRequests]]
  \cup
  [op : {"login"}, body : [email : EmailRequests, password : PasswordRequests]]
  \cup
  [op : {"profile"}, body : [name : NameRequests, avatar : AvatarRequests]]
  \cup
  [op : {"change-password"},
   body : [currentPassword : PasswordRequests, newPassword : PasswordRequests]]

\* a request has arrived and its validator has not run yet
InitV ==
  /\ users = {}
  /\ nextId = 1
  /\ salts = 0
  /\ now = 0
  /\ tokens = {}
  /\ regPending = <<>>
  /\ cpPending = <<>>
  /\ \E q \in ValidatorRequests :
       resp = [op |-> q.op, userId |-> 0, body |-> q.body, res |-> Response(0, "", "")]
  /\ creds = <<>>
  /\ nReq = 0

\* the middleware has run: 400 with the details, or next() with req.body sanitized
Validated(v) ==
  /\ nReq' = 1
  /\ resp' = [resp EXCEPT !.body = v.body,
                          !.res = IF v.errors # <<>>
                                    THEN ValidationFailed(v.errors) ELSE @]
  /\ UNCHANGED <<users, nextId, salts, now, tokens, regPending, cpPending, creds>>

ValidateRegistrationStep ==
  /\ nReq = 0
  /\ resp.op = "register"
  /\ Validated(validateRegistration(resp.body))

ValidateLoginStep ==
  /\ nReq = 0
  /\ resp.op = "login"
  /\ Validated(validateLogin(resp.body))

ValidateProfileUpdateStep ==
  /\ nReq = 0
  /\ resp.op = "profile"
  /\ Validated(validateProfileUpdate(resp.body))

ValidateChangePasswordStep ==
  /\ nReq = 0
  /\ resp.op = "change-password"
  /\ Validated(validateChangePassword(resp.body))

NextV ==
  \/ ValidateRegistrationStep
  \/ ValidateLoginStep
  \/ ValidateProfileUpdateStep
  \/ ValidateChangePasswordStep

SpecV == InitV /\ [][NextV]_vars

(***************************************************************************)
(* Properties                                                              *)
(***************************************************************************)
Registered(email) == findUniqueByEmail(users, email) # {}

UserOf(email) == CHOOSE u \in users : u.email = email

\* the email the login and register handlers look up for a validated body
Normalized(body) == trim(toLowerCase(body.email.v))

\* C1: in every reachable state no two rows of the users table have the same email
C1_EmailUnique == \A u1, u2 \in users : u1.email = u2.email => u1 = u2

\* two rows exist and a register request has just lost the race for an email
C1_Witness ==
  /\ Cardinality(users) = 2
  /\ resp.op = "register"
  /\ resp.res.status = 500

\* C2: once a row exists for an email, a register request that passes validation
\* and whose email lowercases to it is answered 409 at once, and the step neither
\* adds a row nor changes one
C2_DuplicateRegister409 ==
  [][\A body \in RegisterBodies :
       (/\ nReq' = nReq + 1
        /\ Registered(toLowerCase(body.email.v))
        /\ validateRegistration(body).errors = <<>>
        /\ Register(body))
       => /\ resp'.res.status = 409
          /\ users' = users
          /\ regPending' = regPending]_vars

\* A@b.c was answered 409 while the row of a@b.c exists
C2_Witness ==
  /\ resp.op = "register"
  /\ resp.res.status = 409
  /\ resp.body.email = Str(EmailAUpper)
  /\ Registered(EmailA)

\* C3: a register request that is not answered 201 or 400 is answered 409; in
\* particular the loser of two concurrent registrations of one email gets the
\* duplicate-email conflict, not a 500
C3_RaceLoserGets409 ==
  (resp.op = "register" /\ resp.res.status \notin {201, 400})
    => resp.res.status = 409

\* a validated login that finds no row, or finds a row whose hash rejects the password
LoginUnknown(body) ==
  validateLogin(body).errors = <<>> /\ ~Registered(Normalized(body))

LoginMismatch(body) ==
  /\ validateLogin(body).errors = <<>>
  /\ Registered(Normalized(body))
  /\ ~comparePassword(body.password.v, UserOf(Normalized(body)).password)

Uniform401(r1, r2) ==
  /\ r1.status = 401 /\ r2.status = 401
  /\ r1.error = r2.error /\ r1.message = r2.message
  /\ r1.token = <<>> /\ r2.token = <<>>

\* C4 as stated: unknown email and wrong password are answered by the same 401 body
C4_UniformFailure ==
  LET failing == {b \in LoginBodies : LoginUnknown(b) \/ LoginMismatch(b)}
      answers == {LoginHandler(users, b, now) : b \in failing}
  IN \A r1, r2 \in answers : Uniform401(r1, r2)

LoginMismatchActive(body) ==
  LoginMismatch(body) /\ UserOf(Normalized(body)).isActive

\* C4 amended: unknown email and wrong password on an active account are answered
\* by the same 401 body, and no token is issued
C4_UniformFailureActive ==
  LET failing == {b \in LoginBodies : LoginUnknown(b) \/ LoginMismatchActive(b)}
      answers == {LoginHandler(users, b, now) : b \in failing}
  IN \A r1, r2 \in answers : Uniform401(r1, r2)

\* a wrong password on an active account was answered, while another email of the
\* inputs is still unknown
C4_Witness ==
  /\ resp.op = "login"
  /\ LoginMismatchActive(resp.body)
  /\ resp.res = InvalidCredentials
  /\ \E b \in LoginBodies : LoginUnknown(b)

\* C5: a validated login for a deactivated account is answered 401 with a message
\* other than the invalid-credentials one and without a token, whatever the password
C5_InactiveLogin ==
  \A body \in LoginBodies :
    (/\ validateLogin(body).errors = <<>>
     /\ Registered(Normalized(body))
     /\ ~UserOf(Normalized(body)).isActive)
    => LET res == LoginHandler(users, body, now) IN
       /\ res.status = 401
       /\ res.message # InvalidCredentials.message
       /\ res.error # InvalidCredentials.error
       /\ res.token = <<>>

\* a login with the right password of a deactivated account was refused
C5_Witness ==
  /\ resp.op = "login"
  /\ resp.res = AccountDeactivated
  /\ Registered(Normalized(resp.body))
  /\ comparePassword(resp.body.password.v, UserOf(Normalized(resp.body)).password)

UserById(id) == CHOOSE u \in users : u.id = id

\* C6 as stated: while the account is active and its password was never changed, a
\* login with the registered password and an email that lowercases and trims to
\* the stored one is answered 200 with a token for that user
C6_RegisteredLogin ==
  \A u \in users :
    (u.isActive /\ creds[u.id].change = <<>>)
    => \A body \in LoginBodies :
         (body.password.v = creds[u.id].registered /\ Normalized(body) = u.email)
         => LET res == LoginHandler(users, body, now) IN
            /\ res.status = 200
            /\ Len(res.token) = 1
            /\ res.token[1].userId = u.id
            /\ res.token[1].email = u.email

\* C7 as stated: a register request that passed validation and whose lookup found
\* no row is answered 201, adds exactly one row, and its token verifies and
\* carries the id of that row
C7_NewEmailRegisters ==
  [][\A i \in 1..Len(regPending) :
       RegisterFinish(i)
       => /\ resp'.res.status = 201
          /\ Cardinality(users') = Cardinality(users) + 1
          /\ Len(resp'.res.token) = 1
          /\ verifyToken(resp'.res.token[1], now') = "ok"
          /\ \E u \in users' \ users : resp'.res.token[1].userId = u.id]_vars

\* C8: an authenticated change-password request whose newPassword equals its
\* currentPassword is answered 400 at once and the step changes no row, also when
\* currentPassword is the right one
C8_SamePasswordRejected ==
  [][\A token \in TokenInputs, body \in ChangePasswordBodies :
       (/\ nReq' = nReq + 1
        /\ body.newPassword = body.currentPassword
        /\ authenticateToken(token, now).ok
        /\ ChangePassword(token, body))
       => /\ resp'.res.status = 400
          /\ users' = users
          /\ cpPending' = cpPending]_vars

\* the user's own password was sent as both current and new, and refused
C8_Witness ==
  /\ resp.op = "change-password"
  /\ resp.res.status = 400
  /\ resp.userId # 0
  /\ resp.body.newPassword = resp.body.currentPassword
  /\ comparePassword(resp.body.currentPassword.v, UserById(resp.userId).password)

\* C9: an authenticated change-password request whose currentPassword the stored
\* hash rejects is answered 400 and the step changes no row
C9_WrongCurrentPassword400 ==
  [][\A token \in TokenInputs, body \in ChangePasswordBodies :
       (/\ nReq' = nReq + 1
        /\ authenticateToken(token, now).ok
        /\ findUniqueById(users, token.userId) # {}
        /\ ~comparePassword(body.currentPassword.v, UserById(token.userId).password)
        /\ ChangePassword(token, body))
       => /\ resp'.res.status = 400
          /\ users' = users
          /\ cpPending' = cpPending]_vars

\* a request that passed validation was refused for its current password
C9_Witness ==
  /\ resp.op = "change-password"
  /\ resp.userId # 0
  /\ resp.res = InvalidCurrentPassword
  /\ validateChangePassword(resp.body).errors = <<>>

LoginAs(u, password) ==
  LoginHandler(users, [email |-> Str(u.email), password |-> Str(password)], now)

\* every issued token of the user that has not expired is taken by the protected
\* operations
TokensAccepted(u) ==
  \A t \in tokens :
    (t.userId = u.id /\ verifyToken(t, now) = "ok")
    => /\ authenticateToken(t, now).ok
       /\ MeHandler(users, t, now).status = 200
       /\ RefreshHandler(t, now).status = 200
       /\ LogoutHandler(t, now).status = 200

NoTokenReissued ==
  (resp.op = "change-password" /\ resp.res.status = 200) => resp.res.token = <<>>

\* C10 as stated: from a change-password answered 200 until the next one, the new
\* password logs in (200), the old one is answered 401, the 200 carries no token,
\* and the user's tokens are still accepted
C10_AfterChange ==
  /\ NoTokenReissued
  /\ \A u \in users :
       creds[u.id].change # <<>>
       => /\ LoginAs(u, creds[u.id].change[1].new).status = 200
          /\ LoginAs(u, creds[u.id].change[1].old).status = 401
          /\ TokensAccepted(u)

\* C10 amended: the new password logs in (200) while the account is active
C10_AfterChangeActive ==
  /\ NoTokenReissued
  /\ \A u \in users :
       creds[u.id].change # <<>>
       => /\ u.isActive => LoginAs(u, creds[u.id].change[1].new).status = 200
          /\ LoginAs(u, creds[u.id].change[1].old).status = 401
          /\ TokensAccepted(u)

\* after a change the new password has logged in
C10_Witness ==
  /\ resp.op = "login"
  /\ resp.res.status = 200
  /\ \E u \in users :
       /\ creds[u.id].change # <<>>
       /\ Normalized(resp.body) = u.email
       /\ resp.body.password.v = creds[u.id].change[1].new
       /\ \E t \in tokens : t.userId = u.id /\ verifyToken(t, now) = "ok"

\* a profile body that supplies exactly one of name and avatar
OnlyOne(body) == (body.name = Undefined) # (body.avatar = Undefined)

\* the row of the user after a step
UserByIdAfter(id) == CHOOSE u \in users' : u.id = id

\* the step wrote the one supplied column of the one row and kept the rest
PartialUpdate(token, body) ==
  LET old == UserById(token.userId)
      new == UserByIdAfter(token.userId)
  IN /\ resp'.res.status = 200
     /\ users' \ {new} = users \ {old}
     /\ body.avatar = Undefined
          => new.name = Str(trim(body.name.v)) /\ new.avatar = old.avatar
     /\ body.name = Undefined
          => new.avatar = Str(trim(body.avatar.v)) /\ new.name = old.name
     /\ new.id = old.id /\ new.email = old.email /\ new.password = old.password
     /\ new.isActive = old.isActive /\ new.createdAt = old.createdAt

\* C11 as stated: an authenticated update-profile with only name writes name and
\* keeps avatar, one with only avatar writes avatar and keeps name; id, email,
\* password hash, isActive and createdAt are kept, and updatedAt is strictly
\* greater after the update than before
C11_PartialUpdateStrict ==
  [][\A token \in TokenInputs, body \in ProfileBodies :
       (/\ nReq' = nReq + 1
        /\ OnlyOne(body)
        /\ authenticateToken(token, now).ok
        /\ UpdateProfile(token, body))
       => /\ PartialUpdate(token, body)
          /\ UserByIdAfter(token.userId).updatedAt
               > UserById(token.userId).updatedAt]_vars

\* C11 amended: the same, with updatedAt set to the clock's reading at the update,
\* which is strictly greater than before when the clock has moved since the
\* row's last write
C11_PartialUpdate ==
  [][\A token \in TokenInputs, body \in ProfileBodies :
       (/\ nReq' = nReq + 1
        /\ OnlyOne(body)
        /\ authenticateToken(token, now).ok
        /\ UpdateProfile(token, body))
       => /\ PartialUpdate(token, body)
          /\ UserByIdAfter(token.userId).updatedAt = now
          /\ now > UserById(token.userId).updatedAt
               => UserByIdAfter(token.userId).updatedAt
                    > UserById(token.userId).updatedAt]_vars

\* a name-only update was answered 200 for a row that keeps the avatar an earlier
\* update gave it
C11_Witness ==
  /\ resp.op = "profile"
  /\ resp.res.status = 200
  /\ resp.body.avatar = Undefined
  /\ resp.body.name # Undefined
  /\ UserById(resp.userId).name = Str(trim(resp.body.name.v))
  /\ UserById(resp.userId).avatar \in AvatarInputs \ {Undefined}

\* The rule table of the validators, rule by rule: the entry each violated rule
\* puts in details.  A field is present when the body carries a string for it.
Present(x) == x.t = "string"

RequiredRule(x, entry) == IF ~Present(x) \/ x.v = <<>> THEN {entry} ELSE {}

FormatRule(x, entry) ==
  IF Present(x) /\ x.v # <<>> /\ ~isValidEmail(x.v) THEN {entry} ELSE {}

MinLengthRule(x, n, entry) ==
  IF Present(x) /\ x.v # <<>> /\ Length(x.v) < n THEN {entry} ELSE {}

MaxLengthRule(x, n, entry) == IF Present(x) /\ Length(x.v) > n THEN {entry} ELSE {}

NonEmptyRule(x, entry) == IF Present(x) /\ x.v = <<>> THEN {entry} ELSE {}

DifferRule(x, y, entry) == IF Present(x) /\ Present(y) /\ x = y THEN {entry} ELSE {}

RuleEntries(op, body) ==
  CASE op = "register" ->
         RequiredRule(body.email, "Email is required")
         \cup FormatRule(body.email, "Please provide a valid email address")
         \cup RequiredRule(body.password, "Password is required")
         \cup MinLengthRule(body.password, PasswordMinLen,
                            "Password must be at least 6 characters long")
         \cup MaxLengthRule(body.password, PasswordMaxLen,
                            "Password must be less than 100 characters")
         \cup MaxLengthRule(body.name, NameMaxLen,
                            "Name must be less than 50 characters")
         \cup NonEmptyRule(body.name, "Name must be a non-empty string")
    [] op = "login" ->
         RequiredRule(body.email, "Email is required")
         \cup FormatRule(body.email, "Please provide a valid email address")
         \cup RequiredRule(body.password, "Password is required")
    [] op = "profile" ->
         NonEmptyRule(body.name, "Name cannot be empty")
         \cup MaxLengthRule(body.name, NameMaxLen,
                            "Name must be less than 50 characters")
         \cup MaxLengthRule(body.avatar, AvatarMaxLen,
                            "Avatar data is too large (max 19MB)")
    [] op = "change-password" ->
         RequiredRule(body.currentPassword, "Current password is required")
         \cup RequiredRule(body.newPassword, "New password is required")
         \cup MinLengthRule(body.newPassword, PasswordMinLen,
                            "New password must be at least 6 characters long")
         \cup MaxLengthRule(body.newPassword, PasswordMaxLen,
                            "New password must be less than 100 characters")
         \cup DifferRule(body.currentPassword, body.newPassword,
                         "New password must be different from current password")

Details(res) == {res.details[i] : i \in 1..Len(res.details)}

\* C12 as stated: the details of a validator's 400 hold the entry of every rule of
\* the table that the body violates, for each of the four validators
C12_AllRulesReported ==
  (nReq = 1 /\ resp.res.status = 400)
    => RuleEntries(resp.op, resp.body) \subseteq Details(resp.res)

\* the five protected operations take the token: none of them answers 401 or 403
AcceptedIn(us, t, clock) ==
  /\ MeHandler(us, t, clock).status = 200
  /\ \A body \in ProfileBodies :
       ProfileHandler(us, t, body, clock).res.status \notin {401, 403}
  /\ \A body \in ChangePasswordBodies :
       ChangePasswordLookup(us, t, body, clock).res.status \notin {401, 403}
  /\ RefreshHandler(t, clock).status = 200
  /\ LogoutHandler(t, clock).status = 200

Accepted(t) == AcceptedIn(users, t, now)

\* C13: a logout with a valid token is answered 200 and the step changes no row,
\* no pending request and no token; and after every step, every token issued is
\* accepted by me, update-profile, change-password, refresh and logout if it has
\* not expired, in the states after its logout as in the others
C13_LogoutAdvisory ==
  [][/\ \A t \in tokens' :
          verifyToken(t, now') = "ok" => AcceptedIn(users', t, now')
     /\ \A token \in TokenInputs :
          (/\ nReq' = nReq + 1
           /\ authenticateToken(token, now).ok
           /\ Logout(token))
          => /\ resp'.res.status = 200
             /\ users' = users
             /\ tokens' = tokens
             /\ regPending' = regPending /\ cpPending' = cpPending]_vars

\* a logout was answered 200 and its token is still good
C13_Witness ==
  /\ resp.op = "logout"
  /\ resp.res.status = 200
  /\ \E t \in tokens :
       t.userId = resp.userId /\ verifyToken(t, now) = "ok" /\ Accepted(t)

\* C14: a refresh with a valid token is answered 200 with one token, signed at
\* the clock's reading for a full lifetime, whose userId and email are those of
\* the presented token; the answer depends on the token and the clock alone,
\* whatever the state of the user's row, and the step changes no row
C14_RefreshFromClaims ==
  [][\A token \in TokenInputs :
       (/\ nReq' = nReq + 1
        /\ authenticateToken(token, now).ok
        /\ Refresh(token))
       => /\ resp'.res.status = 200
          /\ Len(resp'.res.token) = 1
          /\ resp'.res.token[1].userId = token.userId
          /\ resp'.res.token[1].email = token.email
          /\ resp'.res.token[1].iat = now
          /\ resp'.res.token[1].exp = now + TokenTTL
          /\ verifyToken(resp'.res.token[1], now) = "ok"
          /\ resp'.res.token[1] \in tokens'
          /\ users' = users]_vars

\* a refresh was answered 200 for a user who is deactivated, or whose password
\* has changed since the token was issued
C14_Witness ==
  /\ resp.op = "refresh"
  /\ resp.res.status = 200
  /\ \/ ~UserById(resp.userId).isActive
     \/ creds[resp.userId].change # <<>>

\* the columns of a row other than the password hash
PublicFields == {"id", "email", "name", "avatar", "isActive", "createdAt", "updatedAt"}

\* the user object of a response is a stored row, column for column, less the
\* password hash
SanitizedRow(user, us) ==
  /\ DOMAIN user = PublicFields
  /\ \E u \in us : \A f \in PublicFields : user[f] = u[f]

\* C15: whenever a response is sent, by any of the seven operations, a failure
\* carries no user object, and a user object carried is a row of the table as it
\* is stored after the step, with every column but the password hash and
\* without the password hash
C15_NoHashInResponse ==
  [][resp' # resp
       => /\ resp'.res.status \notin {200, 201} => resp'.res.user = <<>>
          /\ \A i \in 1..Len(resp'.res.user) :
               SanitizedRow(resp'.res.user[i], users')]_vars

\* a response carries the user object of a row whose hash is stored
C15_Witness ==
  /\ resp.op \in {"register", "login", "me", "profile"}
  /\ Len(resp.res.user) = 1
  /\ \E u \in users :
       /\ u.id = resp.res.user[1].id
       /\ u.password.digest # <<>>
       /\ SanitizedRow(resp.res.user[1], {u})

\* a step of one of the seven operations (not the clock, not the database operator)
OperationStep ==
  nReq' # nReq \/ regPending' # regPending \/ cpPending' # cpPending

Ids(us) == {u.id : u \in us}

\* the columns in which some row differs before and after the step
ChangedFields ==
  {f \in PublicFields \cup {"password"} :
     \E u \in users, v \in users' : u.id = v.id /\ u[f] # v[f]}

\* C16: in every step of an operation no row is removed and no row's id, email,
\* isActive or createdAt changes; a row is added only by the write of a register
\* answered 201, one at a time and under an id no row has, and that write
\* changes no other row; the only request whose receipt changes a row is an
\* update-profile answered 200 (so login, me, refresh, logout, and register and
\* change-password up to their write change none), and it changes only name,
\* avatar and updatedAt; the write of a change-password changes only the
\* password hash and updatedAt
C16_Frame ==
  [][OperationStep
       => /\ Ids(users) \subseteq Ids(users')
          /\ Cardinality(users') = Cardinality(Ids(users'))
          /\ ChangedFields \cap {"id", "email", "isActive", "createdAt"} = {}
          /\ Ids(users') # Ids(users)
               => /\ Len(regPending') < Len(regPending)
                  /\ resp'.op = "register"
                  /\ resp'.res.status = 201
                  /\ Cardinality(users') = Cardinality(users) + 1
          /\ Len(regPending') < Len(regPending) => users \subseteq users'
          /\ (nReq' # nReq /\ users' # users)
               => /\ resp'.op = "profile"
                  /\ resp'.res.status = 200
                  /\ Ids(users') = Ids(users)
                  /\ ChangedFields \subseteq {"name", "avatar", "updatedAt"}
          /\ Len(cpPending') < Len(cpPending)
               => /\ Ids(users') = Ids(users)
                  /\ ChangedFields \subseteq {"password", "updatedAt"}]_vars

\* a change-password has rewritten the hash of a row created at an earlier time
C16_Witness ==
  /\ resp.op = "change-password"
  /\ resp.res.status = 200
  /\ UserById(resp.userId).updatedAt > UserById(resp.userId).createdAt
  /\ comparePassword(resp.body.newPassword.v, UserById(resp.userId).password)

\* C17 as stated: a change-password answered 200 compared its currentPassword
\* with the hash that is stored immediately before its own write: the row it
\* read at its lookup still has that hash when it writes
C17_VerifiedBeforeWrite ==
  [][\A i \in 1..Len(cpPending) :
       (ChangePasswordFinish(i) /\ resp'.res.status = 200)
       => /\ UserById(cpPending[i].token.userId).password
               = cpPending[i].user.password
          /\ comparePassword(cpPending[i].body.currentPassword.v,
                             UserById(cpPending[i].token.userId).password)]_vars

====
